---- MODULE Spec2Model ----
(***************************************************************************)
(* Capital allocation and yield distribution engine:                       *)
(*   - YieldDonatingVault  (the accounting ledger, an ERC-4626 vault)      *)
(*   - StrategyManager     (the allocation controller)                     *)
(*   - HealthCheck         (the allocation validator)                      *)
(* Every external call is one atomic step (the EVM serialises             *)
(* transactions); a reverted call changes nothing but the record of the    *)
(* last call, `last`.                                                      *)
(***************************************************************************)
EXTENDS Integers, Sequences, FiniteSets, TLC

(* ------------------------------ bounds -------------------------------- *)
\* amounts offered as inputs are 1..MaxAmount
MaxAmount == 2
\* asset tokens the depositor holds at the start (asset.mint(user, ...))
UserFunds == 2
\* asset tokens minted to the vault as simulated yield, in total
MaxYield == 1
\* block.timestamp advances at most MaxTicks times
MaxTicks == 4
\* the large deposit offered where the manager rebalances the vault's assets
PoolDeposit == 1000
\* rebalance() succeeds at most MaxRebalances times
MaxRebalances == 2
\* accrueYield() of an adapter is followed while its _totalAssets stays
\* within MaxVenueAssets
MaxVenueAssets == 6

(* ------------------------- program constants -------------------------- *)
MIN_DONATION_INTERVAL == 86400
MAX_REBALANCE_DELTA == 2000
BASIS_POINTS == 10000
MAX_WEIGHT == 8000
MIN_WEIGHT == 500

(* --------------------------- derived bounds --------------------------- *)
\* block.timestamp advances half a cooldown per Tick
TickStep == MIN_DONATION_INTERVAL \div 2
\* asset tokens the depositor holds at the start where the manager
\* rebalances
PoolFunds == 2 * PoolDeposit
\* an allowance that one rebalance of a pool deposit uses up part way
\* through its venues
PartAllowance == PoolDeposit \div 2
\* where a deposit is withdrawn again at once: the asset tokens the
\* depositor holds at the start, the amounts offered, and the yield minted
\* to the vault in total
RoundTripFunds == UserFunds + 1
RoundTripAmounts == 1..(MaxAmount + 1)
RoundTripYield == MaxYield + 1
\* type(uint256).max as an allowance: transferFrom does not reduce it, and
\* it is above every amount the asset token holds
Unlimited == 4 * PoolFunds

(* ------------------------------ identities ---------------------------- *)
ZeroAddress == "0x0"
Vault == "vault"
Owner == "owner"
User == "user"
Donation1 == "0x123"
Manager == "manager"
\* the strategy adapters, in the order rebalance() adjusts them; an adapter
\* is named as its weight in AllocationWeights
Venues == <<"aave", "morpho", "spark", "uniswap">>
\* MorphoStrategy: the adapter behind IMorphoAdapter
Morpho == Venues[2]
VenueSet == {Venues[i] : i \in 1..4}
\* the yield rates the adapters are constructed with, in units of 1e15:
\* 0.072e18, 0.068e18, 0.070e18 and 0.065e18
DeployedYieldRate == [aave |-> 72, morpho |-> 68, spark |-> 70, uniswap |-> 65]
\* holders of the underlying asset
Accounts == {User, Owner, Vault, Donation1, Manager} \cup VenueSet
\* identities that submit calls
Callers == {User, Owner}
\* identities that deposit into the vault and hold its shares
Depositors == {User}
\* identities that hold shares of a strategy adapter: the manager, and the
\* depositor calling an adapter directly
Holders == {Manager, User}
\* receivers offered to withdraw/redeem
Receivers == {User, Vault}
\* addresses offered to setDonationAddress
RecipientInputs == {ZeroAddress, Owner, Vault}

Amounts == 1..MaxAmount
\* amounts offered to deposit and withdraw where the manager rebalances
PoolAmounts == {PoolDeposit}

VARIABLES
    balances,               \* asset.balanceOf: [Accounts -> Nat]
    shareBalances,          \* the vault's own ERC-20 share balances: [Depositors -> Nat]
    totalUserDeposits,      \* _totalUserDeposits
    donationAddress,
    lastDonationTimestamp,
    timestamp,              \* block.timestamp
    yieldMinted,            \* asset minted to the vault so far as simulated yield
    currentAllocation,      \* StrategyManager.currentAllocation
    initialized,            \* StrategyManager.initialized
    strategies,             \* per adapter: _totalAssets, _totalShares and
                            \* _balances (shares, per holder)
    yieldRate,              \* per adapter: yieldRate, in units of 1e15
    allowance,              \* asset.allowance(vault, manager)
    rebalances,             \* successful rebalance() calls so far
    last                    \* the last call: operation, outcome, arguments, pre-state

ledgerVars == <<balances, shareBalances, totalUserDeposits, donationAddress,
                lastDonationTimestamp>>
controllerVars == <<currentAllocation, initialized>>
venueVars == <<strategies, yieldRate, allowance, rebalances>>
vars == <<balances, shareBalances, totalUserDeposits, donationAddress,
          lastDonationTimestamp, timestamp, yieldMinted, currentAllocation,
          initialized, strategies, yieldRate, allowance, rebalances,
          last>>

(* ------------------------------ helpers ------------------------------- *)
Max(a, b) == IF a >= b THEN a ELSE b
Abs(a) == IF a >= 0 THEN a ELSE 0 - a
CeilDiv(x, d) == (x + d - 1) \div d

(* --------------------------- ERC-4626 views --------------------------- *)
\* ERC4626.totalAssets(): the vault's balance of the underlying asset
totalAssets == balances[Vault]
\* ERC20.totalSupply() of the vault's shares
totalSupply == shareBalances[User]

\* _convertToShares / _convertToAssets with _decimalsOffset() = 0
ConvertToShares(assets, up) ==
    IF up THEN CeilDiv(assets * (totalSupply + 1), totalAssets + 1)
    ELSE (assets * (totalSupply + 1)) \div (totalAssets + 1)
ConvertToAssets(shares, up) ==
    IF up THEN CeilDiv(shares * (totalAssets + 1), totalSupply + 1)
    ELSE (shares * (totalAssets + 1)) \div (totalSupply + 1)
previewDeposit(assets) == ConvertToShares(assets, FALSE)
previewMint(shares) == ConvertToAssets(shares, TRUE)
previewWithdraw(assets) == ConvertToShares(assets, TRUE)
previewRedeem(shares) == ConvertToAssets(shares, FALSE)
maxWithdraw(owner) == ConvertToAssets(shareBalances[owner], FALSE)
maxRedeem(owner) == shareBalances[owner]

\* the AllocationWeights struct
Weights(a, m, s, u) == [aave |-> a, morpho |-> m, spark |-> s, uniswap |-> u]
\* the struct as storage holds it before the first assignment
NoWeights == Weights(0, 0, 0, 0)

\* the state a call starts from
Snapshot ==
    [balances |-> balances, shareBalances |-> shareBalances,
     totalUserDeposits |-> totalUserDeposits, donationAddress |-> donationAddress,
     lastDonationTimestamp |-> lastDonationTimestamp, timestamp |-> timestamp,
     currentAllocation |-> currentAllocation, initialized |-> initialized,
     strategies |-> strategies, allowance |-> allowance]

\* what a call keeps of the call before it: when that was a successful
\* deposit, its amount and the totalAssets() and _totalUserDeposits it
\* started from
NoPrior == [deposited |-> 0, totalAssets |-> 0, totalUserDeposits |-> 0]
Prior ==
    IF last.op = "deposit" /\ last.err = ""
    THEN [deposited |-> last.amt, totalAssets |-> last.pre.balances[Vault],
          totalUserDeposits |-> last.pre.totalUserDeposits]
    ELSE NoPrior

\* the record of a call: operation, error ("" when it succeeded), return
\* value, amount and address arguments, the state it started from and the
\* deposit it follows
Call(op, err, ret, amt, addr) ==
    [op |-> op, err |-> err, ret |-> ret, amt |-> amt, addr |-> addr,
     weights |-> NoWeights, pre |-> Snapshot,
     prior |-> IF op = "withdraw" /\ err = "" THEN Prior ELSE NoPrior,
     moves |-> <<>>]

\* ERC20 _update on the asset: a transfer to oneself changes no balance
Transfer(bal, from, to, amount) ==
    IF from = to THEN bal
    ELSE [bal EXCEPT ![from] = @ - amount, ![to] = @ + amount]

\* an adapter after its constructor: _totalShares = 1
NewStrategy ==
    [totalAssets |-> 0, totalShares |-> 1, shares |-> [h \in Holders |-> 0]]

\* addresses offered to the vault's constructor as _donationAddress
ConstructorRecipients == {ZeroAddress, Donation1}

\* mutant: the constructor takes any address
ConstructorAcceptsAny(addr) == TRUE

\* the require of the vault's constructor
ConstructorAccepts(addr) == addr # ZeroAddress

\* the deployed system: the depositor holds `funds` of the asset, and the
\* asset token holds one of `allowances` as the allowance of the vault to
\* the manager (no code of the vault or of the manager sets it)
InitWith(funds, allowances) ==
    /\ balances = [a \in Accounts |-> IF a = User THEN funds ELSE 0]
    /\ shareBalances = [c \in Depositors |-> 0]
    /\ totalUserDeposits = 0
    /\ donationAddress \in {a \in ConstructorRecipients : ConstructorAccepts(a)}
    /\ lastDonationTimestamp = 0
    /\ timestamp = 0
    /\ yieldMinted = 0
    /\ currentAllocation = NoWeights
    /\ initialized = FALSE
    /\ strategies = [v \in VenueSet |-> NewStrategy]
    /\ yieldRate = DeployedYieldRate
    /\ allowance \in allowances
    /\ rebalances = 0
    /\ last = [op |-> "constructor", err |-> "", ret |-> 0, amt |-> 0,
               addr |-> ZeroAddress, weights |-> NoWeights,
               pre |-> [balances |-> balances, shareBalances |-> shareBalances,
                        totalUserDeposits |-> 0, donationAddress |-> donationAddress,
                        lastDonationTimestamp |-> 0, timestamp |-> 0,
                        currentAllocation |-> NoWeights, initialized |-> FALSE,
                        strategies |-> strategies, allowance |-> allowance],
               prior |-> NoPrior, moves |-> <<>>]

\* as Deploy.s.sol leaves it: an ERC20Mock on which the vault approved nobody
Init == InitWith(UserFunds, {0})

\* the same system on an asset token that may let the manager move the
\* vault's balance, in part or without limit
ManagerInit == InitWith(PoolFunds, {0, PartAllowance, Unlimited})

\* where deposited funds come back to the depositor, the shares in
\* existence are kept within MaxShares: a deposit that would mint more is
\* not offered
MaxShares == UserFunds + 1
ShareRoom(caller, assets, shares) ==
    balances[caller] < assets \/ totalSupply + shares <= MaxShares

\* a call that reverted: only the record of the call changes (the record
\* keeps the error, not the arguments)
Revert(op, err, amt, addr) ==
    /\ last' = Call(op, err, 0, 0, ZeroAddress)
    /\ UNCHANGED <<ledgerVars, controllerVars, venueVars, timestamp, yieldMinted>>

\* vm.warp(block.timestamp + TickStep): time passes between calls
Tick ==
    /\ timestamp + TickStep <= MaxTicks * TickStep
    /\ timestamp' = timestamp + TickStep
    /\ last' = Call("warp", "", 0, TickStep, ZeroAddress)
    /\ UNCHANGED <<ledgerVars, controllerVars, venueVars, yieldMinted>>

\* asset.mint(address(vault), y): yield accrues to the vault, up to `cap`
\* in total
AccrueYieldUpTo(y, cap) ==
    /\ y >= 1
    /\ yieldMinted + y <= cap
    /\ yieldMinted' = yieldMinted + y
    /\ balances' = [balances EXCEPT ![Vault] = @ + y]
    /\ last' = Call("accrueYield", "", 0, y, Vault)
    /\ UNCHANGED <<shareBalances, totalUserDeposits, donationAddress,
                   lastDonationTimestamp, controllerVars, venueVars,
                   timestamp>>

AccrueYield(y) == AccrueYieldUpTo(y, MaxYield)

(* ------------------------- YieldDonatingVault ------------------------- *)
\* mutant: the assets withdrawn are taken from the principal in full
ReducedDepositsByAssets(assets) == Max(0, totalUserDeposits - assets)

\* mutant: the principal is not adjusted at all
ReducedDepositsNot(assets) == totalUserDeposits

\* _totalUserDeposits after the proportional reduction of withdraw/redeem
ReducedDeposits(assets) ==
    IF totalAssets > 0
    THEN LET proportionalDeposits == (totalUserDeposits * assets) \div totalAssets
         IN IF proportionalDeposits <= totalUserDeposits
            THEN totalUserDeposits - proportionalDeposits
            ELSE totalUserDeposits
    ELSE totalUserDeposits

\* mutant: the principal grows by the shares minted, not the assets paid
DepositEffectCountsShares(op, caller, assets, shares, ret, arg) ==
    IF balances[caller] < assets
    THEN Revert(op, "TransferFailed", arg, caller)
    ELSE /\ balances' = Transfer(balances, caller, Vault, assets)
         /\ shareBalances' = [shareBalances EXCEPT ![caller] = @ + shares]
         /\ totalUserDeposits' = totalUserDeposits + shares
         /\ last' = Call(op, "", ret, arg, caller)
         /\ UNCHANGED <<donationAddress, lastDonationTimestamp, controllerVars, venueVars,
                        timestamp, yieldMinted>>

\* ERC4626._deposit: pull `assets` from the caller, mint `shares` to the
\* receiver (the caller), then _totalUserDeposits += assets
DepositEffect(op, caller, assets, shares, ret, arg) ==
    IF balances[caller] < assets
    THEN Revert(op, "TransferFailed", arg, caller)
    ELSE /\ balances' = Transfer(balances, caller, Vault, assets)
         /\ shareBalances' = [shareBalances EXCEPT ![caller] = @ + shares]
         /\ totalUserDeposits' = totalUserDeposits + assets
         /\ last' = Call(op, "", ret, arg, caller)
         /\ UNCHANGED <<donationAddress, lastDonationTimestamp, controllerVars, venueVars,
                        timestamp, yieldMinted>>

deposit(caller, assets) ==
    DepositEffect("deposit", caller, assets, previewDeposit(assets),
                  previewDeposit(assets), assets)

mint(caller, shares) ==
    DepositEffect("mint", caller, previewMint(shares), shares,
                  previewMint(shares), shares)

\* ERC4626._withdraw after the principal adjustment: burn `shares` of the
\* owner (the caller), send `assets` to the receiver
WithdrawEffect(op, caller, receiver, assets, shares, ret, arg) ==
    /\ totalUserDeposits' = ReducedDeposits(assets)
    /\ shareBalances' = [shareBalances EXCEPT ![caller] = @ - shares]
    /\ balances' = Transfer(balances, Vault, receiver, assets)
    /\ last' = Call(op, "", ret, arg, receiver)
    /\ UNCHANGED <<donationAddress, lastDonationTimestamp, controllerVars, venueVars,
                   timestamp, yieldMinted>>

\* mutant: a rejected withdraw keeps the principal reduction made before
\* super.withdraw
WithdrawRejectedKeepsReduction(caller, assets, receiver) ==
    IF assets > maxWithdraw(caller)
    THEN /\ totalUserDeposits' = ReducedDeposits(assets)
         /\ last' = Call("withdraw", "InsufficientBalance", 0, 0, ZeroAddress)
         /\ UNCHANGED <<balances, shareBalances, donationAddress,
                        lastDonationTimestamp, controllerVars, venueVars,
                        timestamp, yieldMinted>>
    ELSE WithdrawEffect("withdraw", caller, receiver, assets,
                        previewWithdraw(assets), previewWithdraw(assets), assets)

withdraw(caller, assets, receiver) ==
    IF assets > maxWithdraw(caller)
    THEN Revert("withdraw", "InsufficientBalance", assets, receiver)
    ELSE WithdrawEffect("withdraw", caller, receiver, assets,
                        previewWithdraw(assets), previewWithdraw(assets), assets)

redeem(caller, shares, receiver) ==
    IF shares > maxRedeem(caller)
    THEN Revert("redeem", "InsufficientBalance", shares, receiver)
    ELSE WithdrawEffect("redeem", caller, receiver, previewRedeem(shares),
                        shares, previewRedeem(shares), shares)

\* mutant: the subtraction without the guard against a loss
GetAccumulatedYieldUnguarded == totalAssets - totalUserDeposits

getAccumulatedYield ==
    IF totalAssets <= totalUserDeposits THEN 0
    ELSE totalAssets - totalUserDeposits

\* the external view call: it returns getAccumulatedYield and writes nothing
ReadAccumulatedYield ==
    /\ last' = Call("getAccumulatedYield", "", getAccumulatedYield, 0, ZeroAddress)
    /\ UNCHANGED <<ledgerVars, controllerVars, venueVars, timestamp, yieldMinted>>

\* mutant: the require compares the timestamps without the interval
CooldownElapsedNoInterval == timestamp >= lastDonationTimestamp

\* the require of donateYield
CooldownElapsed ==
    timestamp >= lastDonationTimestamp + MIN_DONATION_INTERVAL

\* mutant: a donation of nothing restarts the cooldown
DonateNothingRestartsCooldown ==
    /\ last' = Call("donateYield", "", 0, 0, donationAddress)
    /\ lastDonationTimestamp' = timestamp
    /\ UNCHANGED <<balances, shareBalances, totalUserDeposits, donationAddress,
                   controllerVars, venueVars, timestamp, yieldMinted>>

\* donateYield with no yield to donate: return 0
DonateNothing ==
    /\ last' = Call("donateYield", "", 0, 0, donationAddress)
    /\ UNCHANGED <<ledgerVars, controllerVars, venueVars, timestamp, yieldMinted>>

\* mutant: the donation does not restart the cooldown
DonateEffectKeepsCooldown(donatedAmount) ==
    /\ balances' = Transfer(balances, Vault, donationAddress, donatedAmount)
    /\ last' = Call("donateYield", "", donatedAmount, 0, donationAddress)
    /\ UNCHANGED <<shareBalances, totalUserDeposits, donationAddress,
                   lastDonationTimestamp, controllerVars, venueVars, timestamp, yieldMinted>>

\* mutant: the donation is taken out of the tracked principal too
DonateEffectCutsPrincipal(donatedAmount) ==
    /\ balances' = Transfer(balances, Vault, donationAddress, donatedAmount)
    /\ totalUserDeposits' = Max(0, totalUserDeposits - donatedAmount)
    /\ lastDonationTimestamp' = timestamp
    /\ last' = Call("donateYield", "", donatedAmount, 0, donationAddress)
    /\ UNCHANGED <<shareBalances, donationAddress, controllerVars, venueVars, timestamp,
                   yieldMinted>>

\* mutant: the donation stores the time the next one is allowed
DonateEffectStoresNextTime(donatedAmount) ==
    /\ balances' = Transfer(balances, Vault, donationAddress, donatedAmount)
    /\ lastDonationTimestamp' = timestamp + MIN_DONATION_INTERVAL
    /\ last' = Call("donateYield", "", donatedAmount, 0, donationAddress)
    /\ UNCHANGED <<shareBalances, totalUserDeposits, donationAddress,
                   controllerVars, venueVars, timestamp, yieldMinted>>

\* donateYield with yield: transfer it to donationAddress, restart the cooldown
DonateEffect(donatedAmount) ==
    /\ balances' = Transfer(balances, Vault, donationAddress, donatedAmount)
    /\ lastDonationTimestamp' = timestamp
    /\ last' = Call("donateYield", "", donatedAmount, 0, donationAddress)
    /\ UNCHANGED <<shareBalances, totalUserDeposits, donationAddress,
                   controllerVars, venueVars, timestamp, yieldMinted>>

donateYield ==
    IF ~CooldownElapsed
    THEN Revert("donateYield", "CooldownNotElapsed", 0, donationAddress)
    ELSE IF totalAssets <= totalUserDeposits
    THEN DonateNothing
    ELSE DonateEffect(totalAssets - totalUserDeposits)

\* mutant: the zero address is not refused
SetDonationAddressAnyAddress(caller, addr) ==
    IF caller # Owner
    THEN Revert("setDonationAddress", "NotAuthorized", 0, addr)
    ELSE /\ donationAddress' = addr
         /\ last' = Call("setDonationAddress", "", 0, 0, addr)
         /\ UNCHANGED <<balances, shareBalances, totalUserDeposits,
                        lastDonationTimestamp, controllerVars, venueVars,
                        timestamp, yieldMinted>>

setDonationAddress(caller, addr) ==
    IF caller # Owner
    THEN Revert("setDonationAddress", "NotAuthorized", 0, addr)
    ELSE IF addr = ZeroAddress
    THEN Revert("setDonationAddress", "InvalidRecipient", 0, addr)
    ELSE /\ donationAddress' = addr
         /\ last' = Call("setDonationAddress", "", 0, 0, addr)
         /\ UNCHANGED <<balances, shareBalances, totalUserDeposits,
                        lastDonationTimestamp, controllerVars, venueVars, timestamp,
                        yieldMinted>>

transferToStrategyManager(caller, amount) ==
    IF caller # Owner
    THEN Revert("transferToStrategyManager", "NotAuthorized", amount, caller)
    ELSE IF balances[Vault] < amount
    THEN Revert("transferToStrategyManager", "TransferFailed", amount, caller)
    ELSE /\ balances' = Transfer(balances, Vault, caller, amount)
         /\ last' = Call("transferToStrategyManager", "", 0, amount, caller)
         /\ UNCHANGED <<shareBalances, totalUserDeposits, donationAddress,
                        lastDonationTimestamp, controllerVars, venueVars, timestamp,
                        yieldMinted>>

LedgerNext ==
    \/ \E c \in Depositors, a \in Amounts :
           ShareRoom(c, a, previewDeposit(a)) /\ deposit(c, a)
    \/ \E c \in Depositors, s \in Amounts :
           ShareRoom(c, previewMint(s), s) /\ mint(c, s)
    \/ \E c \in Depositors, a \in Amounts, r \in Receivers : withdraw(c, a, r)
    \/ \E c \in Depositors, s \in Amounts, r \in Receivers : redeem(c, s, r)
    \/ ReadAccumulatedYield
    \/ donateYield
    \/ \E a \in RecipientInputs : setDonationAddress(Owner, a)
    \/ setDonationAddress(User, User)
    \/ \E a \in Amounts : transferToStrategyManager(Owner, a)
    \/ transferToStrategyManager(User, 1)

(* --------------------------- StrategyManager -------------------------- *)
\* weight vectors offered to setAllocationWeights
Proposals ==
    { Weights(4000, 3000, 2000, 1000),
      Weights(6500, 1500, 1500, 500),
      Weights(2500, 2500, 2500, 2500),
      Weights(4000, 500, 4500, 1000),
      Weights(6000, 2000, 1500, 500),
      Weights(8000, 1000, 500, 500),
      Weights(10000, 0, 0, 0),
      Weights(4000, 3000, 2000, 500),
      Weights(5000, 5000, 5000, 5000) }

\* a call to the manager: the record keeps the proposed weights
ManagerCall(op, err, weights) ==
    /\ last' = [Call(op, err, 0, 0, ZeroAddress) EXCEPT !.weights = weights]
    /\ UNCHANGED <<ledgerVars, venueVars, timestamp, yieldMinted>>

\* mutant: a proposal rejected for its sum still marks the manager
\* initialized
SetAllocationWeightsFlagsRejected(caller, weights) ==
    IF caller # Owner
    THEN /\ ManagerCall("setAllocationWeights", "NotAuthorized", weights)
         /\ UNCHANGED controllerVars
    ELSE IF weights.aave + weights.morpho + weights.spark + weights.uniswap
            # BASIS_POINTS
    THEN /\ ManagerCall("setAllocationWeights", "InvalidWeightSum", weights)
         /\ initialized' = TRUE
         /\ UNCHANGED currentAllocation
    ELSE LET aaveDelta == IF weights.aave > currentAllocation.aave
                          THEN weights.aave - currentAllocation.aave
                          ELSE currentAllocation.aave - weights.aave
         IN IF initialized /\ ~(aaveDelta <= MAX_REBALANCE_DELTA)
            THEN /\ ManagerCall("setAllocationWeights",
                                "ExcessiveAllocationChange", weights)
                 /\ UNCHANGED controllerVars
            ELSE /\ initialized' = TRUE
                 /\ currentAllocation' = weights
                 /\ ManagerCall("setAllocationWeights", "", weights)

\* mutant: an accepted proposal restarts the vault's donation cooldown
SetAllocationWeightsRestartsCooldown(caller, weights) ==
    IF caller # Owner
    THEN /\ ManagerCall("setAllocationWeights", "NotAuthorized", weights)
         /\ UNCHANGED controllerVars
    ELSE IF weights.aave + weights.morpho + weights.spark + weights.uniswap
            # BASIS_POINTS
    THEN /\ ManagerCall("setAllocationWeights", "InvalidWeightSum", weights)
         /\ UNCHANGED controllerVars
    ELSE LET aaveDelta == IF weights.aave > currentAllocation.aave
                          THEN weights.aave - currentAllocation.aave
                          ELSE currentAllocation.aave - weights.aave
         IN IF initialized /\ ~(aaveDelta <= MAX_REBALANCE_DELTA)
            THEN /\ ManagerCall("setAllocationWeights",
                                "ExcessiveAllocationChange", weights)
                 /\ UNCHANGED controllerVars
            ELSE /\ initialized' = TRUE
                 /\ currentAllocation' = weights
                 /\ lastDonationTimestamp' = timestamp
                 /\ last' = [Call("setAllocationWeights", "", 0, 0, ZeroAddress)
                               EXCEPT !.weights = weights]
                 /\ UNCHANGED <<balances, shareBalances, totalUserDeposits,
                                donationAddress, venueVars, timestamp,
                                yieldMinted>>

\* mutant: the sum is checked only once the manager is initialized
SetAllocationWeightsSumAfterInit(caller, weights) ==
    IF caller # Owner
    THEN /\ ManagerCall("setAllocationWeights", "NotAuthorized", weights)
         /\ UNCHANGED controllerVars
    ELSE IF initialized
            /\ weights.aave + weights.morpho + weights.spark + weights.uniswap
                # BASIS_POINTS
    THEN /\ ManagerCall("setAllocationWeights", "InvalidWeightSum", weights)
         /\ UNCHANGED controllerVars
    ELSE LET aaveDelta == IF weights.aave > currentAllocation.aave
                          THEN weights.aave - currentAllocation.aave
                          ELSE currentAllocation.aave - weights.aave
         IN IF initialized /\ ~(aaveDelta <= MAX_REBALANCE_DELTA)
            THEN /\ ManagerCall("setAllocationWeights",
                                "ExcessiveAllocationChange", weights)
                 /\ UNCHANGED controllerVars
            ELSE /\ initialized' = TRUE
                 /\ currentAllocation' = weights
                 /\ ManagerCall("setAllocationWeights", "", weights)

\* mutant: the delta check applies to the first vector too
SetAllocationWeightsAlwaysDelta(caller, weights) ==
    IF caller # Owner
    THEN /\ ManagerCall("setAllocationWeights", "NotAuthorized", weights)
         /\ UNCHANGED controllerVars
    ELSE IF weights.aave + weights.morpho + weights.spark + weights.uniswap
            # BASIS_POINTS
    THEN /\ ManagerCall("setAllocationWeights", "InvalidWeightSum", weights)
         /\ UNCHANGED controllerVars
    ELSE LET aaveDelta == IF weights.aave > currentAllocation.aave
                          THEN weights.aave - currentAllocation.aave
                          ELSE currentAllocation.aave - weights.aave
         IN IF ~(aaveDelta <= MAX_REBALANCE_DELTA)
            THEN /\ ManagerCall("setAllocationWeights",
                                "ExcessiveAllocationChange", weights)
                 /\ UNCHANGED controllerVars
            ELSE /\ initialized' = TRUE
                 /\ currentAllocation' = weights
                 /\ ManagerCall("setAllocationWeights", "", weights)

\* mutant: a sum below BASIS_POINTS passes the require
SetAllocationWeightsSumAtMost(caller, weights) ==
    IF caller # Owner
    THEN /\ ManagerCall("setAllocationWeights", "NotAuthorized", weights)
         /\ UNCHANGED controllerVars
    ELSE IF weights.aave + weights.morpho + weights.spark + weights.uniswap
            > BASIS_POINTS
    THEN /\ ManagerCall("setAllocationWeights", "InvalidWeightSum", weights)
         /\ UNCHANGED controllerVars
    ELSE LET aaveDelta == IF weights.aave > currentAllocation.aave
                          THEN weights.aave - currentAllocation.aave
                          ELSE currentAllocation.aave - weights.aave
         IN IF initialized /\ ~(aaveDelta <= MAX_REBALANCE_DELTA)
            THEN /\ ManagerCall("setAllocationWeights",
                                "ExcessiveAllocationChange", weights)
                 /\ UNCHANGED controllerVars
            ELSE /\ initialized' = TRUE
                 /\ currentAllocation' = weights
                 /\ ManagerCall("setAllocationWeights", "", weights)

setAllocationWeights(caller, weights) ==
    IF caller # Owner
    THEN /\ ManagerCall("setAllocationWeights", "NotAuthorized", weights)
         /\ UNCHANGED controllerVars
    ELSE IF weights.aave + weights.morpho + weights.spark + weights.uniswap
            # BASIS_POINTS
    THEN /\ ManagerCall("setAllocationWeights", "InvalidWeightSum", weights)
         /\ UNCHANGED controllerVars
    ELSE LET aaveDelta == IF weights.aave > currentAllocation.aave
                          THEN weights.aave - currentAllocation.aave
                          ELSE currentAllocation.aave - weights.aave
         IN IF initialized /\ ~(aaveDelta <= MAX_REBALANCE_DELTA)
            THEN /\ ManagerCall("setAllocationWeights",
                                "ExcessiveAllocationChange", weights)
                 /\ UNCHANGED controllerVars
            ELSE /\ initialized' = TRUE
                 /\ currentAllocation' = weights
                 /\ ManagerCall("setAllocationWeights", "", weights)

(* ----------------------------- HealthCheck ---------------------------- *)
\* weight vectors offered to validateAllocation: the proposals and vectors
\* that sum to BASIS_POINTS on either side of each bound
Candidates ==
    Proposals \cup
    { Weights(8001, 999, 500, 500),
      Weights(7001, 2000, 500, 499),
      Weights(8001, 1000, 500, 499),
      Weights(500, 500, 8000, 1000),
      Weights(499, 501, 1000, 8000),
      Weights(0, 0, 0, 0) }

\* mutant: a weight equal to the upper bound is refused
ValidateAllocationStrictMax(aave, morpho, spark, uniswap) ==
    LET total == aave + morpho + spark + uniswap
    IN IF total # BASIS_POINTS THEN FALSE
       ELSE IF aave >= MAX_WEIGHT \/ morpho >= MAX_WEIGHT \/ spark >= MAX_WEIGHT
               \/ uniswap >= MAX_WEIGHT THEN FALSE
       ELSE IF aave < MIN_WEIGHT \/ morpho < MIN_WEIGHT \/ spark < MIN_WEIGHT
               \/ uniswap < MIN_WEIGHT THEN FALSE
       ELSE TRUE

validateAllocation(aave, morpho, spark, uniswap) ==
    LET total == aave + morpho + spark + uniswap
    IN IF total # BASIS_POINTS THEN FALSE
       ELSE IF aave > MAX_WEIGHT \/ morpho > MAX_WEIGHT \/ spark > MAX_WEIGHT
               \/ uniswap > MAX_WEIGHT THEN FALSE
       ELSE IF aave < MIN_WEIGHT \/ morpho < MIN_WEIGHT \/ spark < MIN_WEIGHT
               \/ uniswap < MIN_WEIGHT THEN FALSE
       ELSE TRUE

\* the external pure call: it returns validateAllocation (1 for true) and
\* writes nothing
ValidateAllocation(w) ==
    /\ last' = [Call("validateAllocation", "",
                     IF validateAllocation(w.aave, w.morpho, w.spark, w.uniswap)
                     THEN 1 ELSE 0,
                     0, ZeroAddress) EXCEPT !.weights = w]
    /\ UNCHANGED <<ledgerVars, controllerVars, venueVars, timestamp, yieldMinted>>

ControllerNext ==
    \/ \E c \in Callers, w \in Proposals : setAllocationWeights(c, w)
    \/ \E w \in Candidates : ValidateAllocation(w)

\* mutant: the health check reports unhealthy
IsHealthyNever(manager) == FALSE

\* HealthCheck.isHealthy: a placeholder that reports healthy
isHealthy(manager) == TRUE

(* ------------------------- strategy adapters -------------------------- *)
\* the running state of one rebalance() call: asset balances, the allowance
\* left, adapter state, the error that reverted it ("" while none did) and
\* the adapter calls made so far
RebalanceStart ==
    [bal |-> balances, allowance |-> allowance, strat |-> strategies,
     err |-> "", moves |-> <<>>]
Failed(st, err) == [st EXCEPT !.err = err]

\* asset.transferFrom(vault, manager, amount) as the manager calls it
PullFromVault(st, amount) ==
    IF st.allowance < amount \/ st.bal[Vault] < amount
    THEN Failed(st, "TransferFailed")
    ELSE [st EXCEPT
            !.bal = Transfer(@, Vault, Manager, amount),
            !.allowance = IF @ = Unlimited THEN @ ELSE @ - amount]

\* adapter.deposit(amount) called by `caller`, after asset.approve: the
\* shares minted are the amount
StrategyDeposit(st, v, caller, amount) ==
    IF amount = 0 THEN Failed(st, "ZeroAmount")
    ELSE IF st.bal[caller] < amount THEN Failed(st, "TransferFailed")
    ELSE [st EXCEPT
            !.bal = Transfer(@, caller, v, amount),
            !.strat[v].totalAssets = @ + amount,
            !.strat[v].totalShares = @ + amount,
            !.strat[v].shares[caller] = @ + amount,
            !.moves = Append(@, [venue |-> v, kind |-> "deposit",
                                 asked |-> amount, moved |-> amount])]

\* adapter.deposit(amount) called by the manager
AdapterDeposit(st, v, amount) == StrategyDeposit(st, v, Manager, amount)

\* the assets `shares` redeem for in adapter.withdraw
RedeemAmount(shares, totalAssets_, totalShares_) ==
    IF totalShares_ > 0 THEN (shares * totalAssets_) \div totalShares_
    ELSE shares

\* adapter.withdraw(shares) called by `caller`: the assets are sent to
\* msg.sender
StrategyWithdraw(st, v, caller, shares) ==
    LET a == st.strat[v]
        amount == RedeemAmount(shares, a.totalAssets, a.totalShares)
    IN IF shares = 0 \/ a.shares[caller] < shares
       THEN Failed(st, "InsufficientShares")
       ELSE IF a.totalAssets < amount THEN Failed(st, "InsufficientAssets")
       ELSE IF st.bal[v] < amount THEN Failed(st, "TransferFailed")
       ELSE [st EXCEPT
               !.bal = Transfer(@, v, caller, amount),
               !.strat[v].totalAssets = @ - amount,
               !.strat[v].totalShares = @ - shares,
               !.strat[v].shares[caller] = @ - shares,
               !.moves = Append(@, [venue |-> v, kind |-> "withdraw",
                                    asked |-> shares, moved |-> amount])]

\* adapter.withdraw(shares) called by the manager
AdapterWithdraw(st, v, shares) == StrategyWithdraw(st, v, Manager, shares)

\* a call to an adapter by a depositor, outside any rebalance
AdapterCall(op, done, ret, arg, v) ==
    IF done.err # ""
    THEN Revert(op, done.err, arg, v)
    ELSE /\ balances' = done.bal
         /\ strategies' = done.strat
         /\ last' = [Call(op, "", ret, arg, v) EXCEPT !.moves = done.moves]
         /\ UNCHANGED <<shareBalances, totalUserDeposits, donationAddress,
                        lastDonationTimestamp, controllerVars, yieldRate,
                        allowance, rebalances, timestamp, yieldMinted>>

\* asset.approve(adapter, amount), then adapter.deposit(amount): returns
\* the shares minted
AdapterDepositCall(v, caller, amount) ==
    AdapterCall("adapter.deposit",
                StrategyDeposit(RebalanceStart, v, caller, amount),
                amount, amount, v)

\* adapter.withdraw(shares): returns the assets paid
AdapterWithdrawCall(v, caller, shares) ==
    AdapterCall("adapter.withdraw",
                StrategyWithdraw(RebalanceStart, v, caller, shares),
                RedeemAmount(shares, strategies[v].totalAssets,
                             strategies[v].totalShares),
                shares, v)

\* (_totalAssets * yieldRate) / 365 / 1e18, with yieldRate in units of 1e15
DailyYield(v) == (strategies[v].totalAssets * yieldRate[v]) \div (365 * 1000)

\* adapter.accrueYield(): _totalAssets grows by the daily yield, no asset
\* arrives
accrueYield(v) ==
    /\ strategies[v].totalAssets + DailyYield(v) <= MaxVenueAssets
    /\ strategies' = [strategies EXCEPT ![v].totalAssets = @ + DailyYield(v)]
    /\ last' = Call("adapter.accrueYield", "", 0, DailyYield(v), v)
    /\ UNCHANGED <<ledgerVars, controllerVars, yieldRate, allowance, rebalances,
                   timestamp, yieldMinted>>

\* yield rates offered to setYieldRate, in units of 1e15: 365e18, under
\* which a day's yield is the whole of _totalAssets
YieldRates == {365 * 1000}

\* adapter.setYieldRate(rate), open to any caller
setYieldRate(v, rate) ==
    /\ yieldRate' = [yieldRate EXCEPT ![v] = rate]
    /\ last' = Call("adapter.setYieldRate", "", 0, rate, v)
    /\ UNCHANGED <<ledgerVars, controllerVars, strategies, allowance,
                   rebalances, timestamp, yieldMinted>>

\* the adapters with their code at hand, called directly by the depositor
DirectVenues == {Venues[1]}

AdapterNext ==
    \/ \E v \in DirectVenues, a \in Amounts : AdapterDepositCall(v, User, a)
    \/ \E v \in DirectVenues, n \in Amounts : AdapterWithdrawCall(v, User, n)
    \/ \E v \in DirectVenues : accrueYield(v)
    \/ \E v \in DirectVenues :
           \E r \in YieldRates \cup {DeployedYieldRate[v]} : setYieldRate(v, r)

(* ------------------------ StrategyManager.rebalance -------------------- *)
\* _rebalanceStrategy(strategy, current, target); a call that has reverted
\* does nothing more
RebalanceStrategy(st, v, current, target) ==
    IF st.err # "" THEN st
    ELSE IF target > current
    THEN LET depositAmount == target - current
             pulled == PullFromVault(st, depositAmount)
         IN IF pulled.err # "" THEN pulled
            ELSE AdapterDeposit(pulled, v, depositAmount)
    ELSE IF target < current
    THEN LET withdrawAmount == current - target
             sharesToWithdraw == withdrawAmount
         IN AdapterWithdraw(st, v, sharesToWithdraw)
    ELSE st

\* adapter.balanceOf() as the manager calls it: _balances[msg.sender]
balanceOf(v) == strategies[v].shares[Manager]

\* mutant: the target is rounded up
TargetOfRoundedUp(total, weights, v) == CeilDiv(total * weights[v], BASIS_POINTS)

\* mutant: weights never assigned are read as equal weights
TargetOfEqualWhenUnset(total, weights, v) ==
    IF weights = NoWeights THEN total \div 4
    ELSE (total * weights[v]) \div BASIS_POINTS

\* the target of a venue: (totalAssets * weight) / BASIS_POINTS
TargetOf(total, weights, v) == (total * weights[v]) \div BASIS_POINTS

\* mutant: the venues above their target are adjusted first, then the
\* venues below it
RebalancedWithdrawalsFirst ==
    LET target == [v \in VenueSet |-> TargetOf(totalAssets, currentAllocation, v)]
        current == [v \in VenueSet |-> balanceOf(v)]
        pass(st, i, above) ==
            IF (target[Venues[i]] < current[Venues[i]]) = above
            THEN RebalanceStrategy(st, Venues[i], current[Venues[i]],
                                   target[Venues[i]])
            ELSE st
        w1 == pass(RebalanceStart, 1, TRUE)
        w2 == pass(w1, 2, TRUE)
        w3 == pass(w2, 3, TRUE)
        w4 == pass(w3, 4, TRUE)
        d1 == pass(w4, 1, FALSE)
        d2 == pass(d1, 2, FALSE)
        d3 == pass(d2, 3, FALSE)
    IN pass(d3, 4, FALSE)

\* the four _rebalanceStrategy calls of rebalance(), from the targets and
\* the balanceOf() of each adapter read before the first of them
Rebalanced ==
    LET target == [v \in VenueSet |-> TargetOf(totalAssets, currentAllocation, v)]
        current == [v \in VenueSet |-> balanceOf(v)]
        s1 == RebalanceStrategy(RebalanceStart, Venues[1],
                                current[Venues[1]], target[Venues[1]])
        s2 == RebalanceStrategy(s1, Venues[2], current[Venues[2]], target[Venues[2]])
        s3 == RebalanceStrategy(s2, Venues[3], current[Venues[3]], target[Venues[3]])
    IN RebalanceStrategy(s3, Venues[4], current[Venues[4]], target[Venues[4]])

\* mutant: a rebalance() that fails keeps the adapter calls made before the
\* failure
RebalanceKeepsEarlierMoves(caller) ==
    IF caller # Owner
    THEN Revert("rebalance", "NotAuthorized", 0, caller)
    ELSE LET done == Rebalanced
         IN /\ balances' = done.bal
            /\ strategies' = done.strat
            /\ allowance' = done.allowance
            /\ rebalances' = IF done.err = "" THEN rebalances + 1 ELSE rebalances
            /\ last' = [Call("rebalance", done.err, 0, 0,
                              IF done.err = "" THEN caller ELSE ZeroAddress)
                          EXCEPT !.moves = IF done.err = "" THEN done.moves ELSE <<>>]
            /\ UNCHANGED <<shareBalances, totalUserDeposits, donationAddress,
                           lastDonationTimestamp, controllerVars,
                           yieldRate, timestamp, yieldMinted>>

\* mutant: rebalance() without onlyOwner
RebalanceByAnyone(caller) ==
    LET done == Rebalanced
    IN IF done.err # ""
       THEN Revert("rebalance", done.err, 0, caller)
       ELSE /\ balances' = done.bal
            /\ strategies' = done.strat
            /\ allowance' = done.allowance
            /\ rebalances' = rebalances + 1
            /\ last' = [Call("rebalance", "", 0, 0, caller)
                          EXCEPT !.moves = done.moves]
            /\ UNCHANGED <<shareBalances, totalUserDeposits, donationAddress,
                           lastDonationTimestamp, controllerVars,
                           yieldRate, timestamp, yieldMinted>>

rebalance(caller) ==
    IF caller # Owner
    THEN Revert("rebalance", "NotAuthorized", 0, caller)
    ELSE LET done == Rebalanced
         IN IF done.err # ""
            THEN Revert("rebalance", done.err, 0, caller)
            ELSE IF ~isHealthy(Manager)
            THEN Revert("rebalance", "HealthCheckFailed", 0, caller)
            ELSE /\ balances' = done.bal
                 /\ strategies' = done.strat
                 /\ allowance' = done.allowance
                 /\ rebalances' = rebalances + 1
                 /\ last' = [Call("rebalance", "", 0, 0, caller)
                               EXCEPT !.moves = done.moves]
                 /\ UNCHANGED <<shareBalances, totalUserDeposits, donationAddress,
                                lastDonationTimestamp, controllerVars,
                                yieldRate, timestamp, yieldMinted>>

\* the manager with the vault it rebalances: weight updates, rebalances,
\* deposits, withdrawals and yield
\* weight vectors offered to setAllocationWeights where the manager
\* rebalances
PoolProposals ==
    { Weights(4000, 3000, 2000, 1000),
      Weights(4000, 2000, 3000, 1000),
      Weights(2500, 2500, 2500, 2500),
      Weights(4000, 3000, 2000, 500) }

ManagerNext ==
    \/ \E c \in Callers, w \in PoolProposals : setAllocationWeights(c, w)
    \/ \E c \in Callers : rebalances < MaxRebalances /\ rebalance(c)
    \/ \E a \in PoolAmounts : deposit(User, a)
    \/ \E a \in {maxWithdraw(User)} \ {0} : withdraw(User, a, Owner)
    \/ \E y \in Amounts : AccrueYield(y)
    \/ setDonationAddress(User, User)

(* --------------------------- specifications --------------------------- *)
\* the vault with time passing and yield accruing
LedgerStep ==
    \/ Tick
    \/ \E y \in Amounts : AccrueYield(y)
    \/ LedgerNext

LedgerSpec == Init /\ [][LedgerStep]_vars

\* the share accounting alone: deposits, withdrawals and yield in one block
AccountingNext ==
    \/ \E y \in Amounts : AccrueYield(y)
    \/ \E c \in Depositors, a \in Amounts :
           ShareRoom(c, a, previewDeposit(a)) /\ deposit(c, a)
    \/ \E c \in Depositors, s \in Amounts :
           ShareRoom(c, previewMint(s), s) /\ mint(c, s)
    \/ \E c \in Depositors, a \in Amounts, r \in Receivers : withdraw(c, a, r)
    \/ \E c \in Depositors, s \in Amounts, r \in Receivers : redeem(c, s, r)
    \/ ReadAccumulatedYield
    \/ \E a \in Amounts : transferToStrategyManager(Owner, a)
    \/ transferToStrategyManager(User, 1)

AccountingSpec == Init /\ [][AccountingNext]_vars

\* the donation cycle: time passes, yield arrives, the owner picks recipients
DonationNext ==
    \/ Tick
    \/ \E y \in Amounts : AccrueYield(y)
    \/ \E c \in Depositors, a \in Amounts :
           ShareRoom(c, a, previewDeposit(a)) /\ deposit(c, a)
    \/ \E c \in Depositors, a \in Amounts : withdraw(c, a, c)
    \/ donateYield
    \/ \E a \in RecipientInputs : setDonationAddress(Owner, a)
    \/ setDonationAddress(User, User)

DonationSpec == Init /\ [][DonationNext]_vars

\* the donation cycle with the owner updating the manager's weights
CoupledProposals ==
    { Weights(4000, 3000, 2000, 1000),
      Weights(5000, 5000, 5000, 5000) }

CoupledNext ==
    \/ DonationNext
    \/ \E w \in CoupledProposals : setAllocationWeights(Owner, w)
    \/ setAllocationWeights(User, NoWeights)

CoupledSpec == Init /\ [][CoupledNext]_vars

\* deposits withdrawn again by the depositor, around yield waiting for the
\* recipient
RoundTripInit == InitWith(RoundTripFunds, {0})

RoundTripNext ==
    \/ \E y \in RoundTripAmounts : AccrueYieldUpTo(y, RoundTripYield)
    \/ \E a \in RoundTripAmounts : deposit(User, a)
    \/ \E a \in RoundTripAmounts : withdraw(User, a, User)
    \/ ReadAccumulatedYield

RoundTripSpec == RoundTripInit /\ [][RoundTripNext]_vars

\* one adapter under direct deposits, withdrawals and yield
AdapterSpec == Init /\ [][AdapterNext]_vars

\* the manager's weight updates
ControllerSpec == Init /\ [][ControllerNext]_vars

ManagerSpec == ManagerInit /\ [][ManagerNext]_vars

\* the whole system
Next ==
    \/ LedgerStep
    \/ ControllerNext
    \/ ManagerNext
    \/ AdapterNext
    \/ RoundTripNext

Spec == Init /\ [][Next]_vars

(* ------------------------------- claims ------------------------------- *)
\* the state the last call started from, as the ledger reads it
PreTotalAssets == last.pre.balances[Vault]
PrePrincipal == last.pre.totalUserDeposits
PreYield == Max(0, PreTotalAssets - PrePrincipal)
PreCooldownElapsed ==
    ~(last.pre.timestamp < last.pre.lastDonationTimestamp + MIN_DONATION_INTERVAL)
\* the last call changed nothing
NothingChanged == Snapshot = last.pre

\* C1: getAccumulatedYield returns exactly max(0, totalAssets -
\* _totalUserDeposits) and changes no state, so repeated reads agree.
C1_AccumulatedYieldIsResidual ==
    last.op = "getAccumulatedYield" =>
        /\ last.err = ""
        /\ last.ret = Max(0, totalAssets - totalUserDeposits)
        /\ NothingChanged
\* C1 witness: the read of a vault whose assets fell below the principal
C1_ReadAfterLoss ==
    /\ last.op = "getAccumulatedYield"
    /\ totalAssets < totalUserDeposits
    /\ last.ret = 0

\* C2: donateYield before lastDonationTimestamp + MIN_DONATION_INTERVAL
\* fails with CooldownNotElapsed and changes nothing, whatever the yield;
\* two donations of a positive amount are at least the interval apart.
C2_CooldownRejects ==
    /\ (last.op = "donateYield" /\ ~PreCooldownElapsed) =>
           /\ last.err = "CooldownNotElapsed"
           /\ NothingChanged
    /\ (last.op = "donateYield" /\ last.err = "" /\ last.ret > 0) =>
           timestamp >= last.pre.lastDonationTimestamp + MIN_DONATION_INTERVAL
\* C2 witness: yield is waiting, time has passed since the last positive
\* donation, and the call is rejected for the cooldown
C2_RejectedWithYieldWaiting ==
    /\ last.op = "donateYield"
    /\ last.err = "CooldownNotElapsed"
    /\ totalAssets > totalUserDeposits
    /\ lastDonationTimestamp > 0
    /\ timestamp > lastDonationTimestamp
    /\ donationAddress # Vault

\* C3: donateYield after the cooldown with no yield succeeds, returns 0,
\* transfers nothing and leaves lastDonationTimestamp and all else as it
\* was, so the cooldown is still elapsed for the next call.
C3_ZeroYieldIsNoOp ==
    (last.op = "donateYield" /\ PreCooldownElapsed /\ PreYield = 0) =>
        /\ last.err = ""
        /\ last.ret = 0
        /\ NothingChanged
        /\ CooldownElapsed
\* C3 witness: a successful donation of nothing
C3_DonatedNothing ==
    /\ last.op = "donateYield"
    /\ last.err = ""
    /\ last.ret = 0
    /\ PreCooldownElapsed
    /\ totalUserDeposits > 0

\* the conditions of a donation of yield: the last call was donateYield,
\* the cooldown had elapsed and yield was waiting
DonationDue ==
    /\ last.op = "donateYield"
    /\ PreCooldownElapsed
    /\ PreYield > 0
\* what a donation of the waiting yield does
DonationPaid ==
    /\ last.err = ""
    /\ last.ret = PreYield
    /\ balances[last.pre.donationAddress]
           = last.pre.balances[last.pre.donationAddress] + PreYield
    /\ totalAssets = PreTotalAssets - PreYield
    /\ lastDonationTimestamp = timestamp

\* C4 as stated: a due donation returns the yield Y, adds Y to the
\* recipient's balance, takes Y from totalAssets and restarts the cooldown.
C4_DonationPaysRecipient == DonationDue => DonationPaid
\* C4 amended: the same for a donationAddress other than the vault itself.
C4_DonationPaysOtherRecipient ==
    (DonationDue /\ last.pre.donationAddress # Vault) => DonationPaid
\* C4 witness: yield paid to a recipient that is not the vault
C4_YieldPaidOut ==
    /\ DonationDue
    /\ last.pre.donationAddress # Vault
    /\ last.ret > 0
    /\ PrePrincipal > 0

\* C5 as stated: donateYield never changes _totalUserDeposits, and right
\* after a donation of a positive amount the accumulated yield is 0 and
\* totalAssets equals _totalUserDeposits.
C5_DonationLeavesPrincipal ==
    last.op = "donateYield" =>
        /\ totalUserDeposits = PrePrincipal
        /\ (last.err = "" /\ last.ret > 0) =>
               /\ getAccumulatedYield = 0
               /\ totalAssets = totalUserDeposits
\* C5 amended: the principal never changes; the yield is 0 and totalAssets
\* equals the principal after a positive donation to a donationAddress other
\* than the vault itself.
C5_DonationToOtherLeavesPrincipal ==
    last.op = "donateYield" =>
        /\ totalUserDeposits = PrePrincipal
        /\ (last.err = "" /\ last.ret > 0 /\ last.pre.donationAddress # Vault) =>
               /\ getAccumulatedYield = 0
               /\ totalAssets = totalUserDeposits
\* C5 witness: after a positive donation the vault holds the principal
C5_VaultHoldsPrincipal ==
    /\ last.op = "donateYield"
    /\ last.err = ""
    /\ last.ret > 0
    /\ last.pre.donationAddress # Vault
    /\ totalUserDeposits > 0
    /\ totalAssets = totalUserDeposits

\* the last call was a successful deposit or mint / withdraw or redeem
Deposited == last.op \in {"deposit", "mint"} /\ last.err = ""
Withdrawn == last.op \in {"withdraw", "redeem"} /\ last.err = ""
PreSupply == last.pre.shareBalances[User]
\* the assets the depositor paid in the last call
AssetsPaid == last.pre.balances[User] - balances[User]
\* the asset value the last withdraw or redeem was for: the assets asked
\* for, or what the redeemed shares were worth when the call started
AssetsOut ==
    IF last.op = "withdraw" THEN last.amt
    ELSE (last.amt * (PreTotalAssets + 1)) \div (PreSupply + 1)
\* floor(P * A / TV) in the state the last call started from
ProportionalPrincipal == (PrePrincipal * AssetsOut) \div PreTotalAssets

\* C6: a successful deposit(A), or mint(shares) costing A, adds exactly A
\* to totalAssets (the vault's asset balance) and to _totalUserDeposits.
C6_DepositAddsToBoth ==
    Deposited =>
        /\ (last.op = "deposit" => AssetsPaid = last.amt)
        /\ (last.op = "mint" => AssetsPaid = last.ret)
        /\ totalAssets = PreTotalAssets + AssetsPaid
        /\ totalUserDeposits = PrePrincipal + AssetsPaid
\* C6 witness: a mint whose asset cost differs from the shares minted
C6_MintAtOtherPrice ==
    /\ Deposited
    /\ last.op = "mint"
    /\ AssetsPaid > 0
    /\ AssetsPaid # last.amt

\* C7 as stated: a successful withdrawal of asset value A from totalAssets
\* TV > 0 and principal P takes exactly A from totalAssets and exactly
\* floor(P * A / TV) from the principal when that is <= P, and nothing from
\* the principal otherwise; for withdraw(A) and for redeem(shares) worth A.
C7_PrincipalReduced ==
    IF ProportionalPrincipal <= PrePrincipal
    THEN totalUserDeposits = PrePrincipal - ProportionalPrincipal
    ELSE totalUserDeposits = PrePrincipal
C7_WithdrawTakesProportion ==
    (Withdrawn /\ PreTotalAssets > 0) =>
        /\ totalAssets = PreTotalAssets - AssetsOut
        /\ C7_PrincipalReduced
\* C7 amended: the principal is reduced as stated; totalAssets falls by
\* exactly A when the receiver is not the vault itself, and stays as it was
\* when the receiver is the vault.
C7_WithdrawToOtherTakesProportion ==
    (Withdrawn /\ PreTotalAssets > 0) =>
        /\ C7_PrincipalReduced
        /\ last.addr # Vault => totalAssets = PreTotalAssets - AssetsOut
        /\ last.addr = Vault => totalAssets = PreTotalAssets
\* C7 witness: a withdrawal whose proportional principal is rounded down
C7_RoundedWithdrawal ==
    /\ Withdrawn
    /\ last.addr # Vault
    /\ PreTotalAssets > 0
    /\ AssetsOut > 0
    /\ ProportionalPrincipal > 0
    /\ ProportionalPrincipal * PreTotalAssets < PrePrincipal * AssetsOut

\* the last call was a successful withdraw(D) right after a successful
\* deposit(D) into a vault with no outstanding yield
DepositThenWithdraw ==
    /\ last.op = "withdraw"
    /\ last.err = ""
    /\ last.prior.deposited > 0
    /\ last.amt = last.prior.deposited
    /\ last.prior.totalAssets = last.prior.totalUserDeposits
RoundTripRestores ==
    /\ Abs(totalAssets - last.prior.totalAssets) <= 1
    /\ Abs(totalUserDeposits - last.prior.totalUserDeposits) <= 1

\* C8 as stated: deposit(D) then withdraw(D), from a state with totalAssets
\* equal to the principal, leaves both within one unit of what they were.
C8_RoundTrip == DepositThenWithdraw => RoundTripRestores
\* C8 amended: the same when the withdrawal's receiver is not the vault.
C8_RoundTripToOther ==
    (DepositThenWithdraw /\ last.addr # Vault) => RoundTripRestores
\* C8 witness: a round trip of two units into a vault that holds principal
C8_RoundTripDone ==
    /\ DepositThenWithdraw
    /\ last.addr # Vault
    /\ last.amt = 2
    /\ RoundTripRestores

\* the entries of an AllocationWeights struct, in venue order
Entries(w) == <<w.aave, w.morpho, w.spark, w.uniswap>>
WeightSum(w) == w.aave + w.morpho + w.spark + w.uniswap
\* the largest change of any venue's weight between two vectors
MaxDelta(new, old) ==
    LET d == [i \in 1..4 |-> Abs(Entries(new)[i] - Entries(old)[i])]
    IN Max(Max(d[1], d[2]), Max(d[3], d[4]))
\* the last call was setAllocationWeights by the owner
OwnerProposed ==
    /\ last.op = "setAllocationWeights"
    /\ last.err # "NotAuthorized"
\* the last call left the manager as it was
ProposalRejected(err) ==
    /\ last.err = err
    /\ currentAllocation = last.pre.currentAllocation
    /\ initialized = last.pre.initialized

\* C9: once initialized, a proposal that moves any venue's weight by more
\* than MAX_REBALANCE_DELTA is rejected with ExcessiveAllocationChange, also
\* when it sums to BASIS_POINTS, and the stored weights stay.
C9_DriftLimitOnEveryVenue ==
    ( /\ OwnerProposed
      /\ last.pre.initialized
      /\ WeightSum(last.weights) = BASIS_POINTS
      /\ MaxDelta(last.weights, last.pre.currentAllocation) > MAX_REBALANCE_DELTA )
    => ProposalRejected("ExcessiveAllocationChange")

\* C10: every stored weight is between MIN_WEIGHT and MAX_WEIGHT once a
\* vector has been accepted, and a proposal with an entry outside these
\* bounds is rejected with WeightOutOfBounds and the stored weights stay.
WithinBounds(w) ==
    \A i \in 1..4 : Entries(w)[i] <= MAX_WEIGHT /\ Entries(w)[i] >= MIN_WEIGHT
C10_StoredWeightsValidated ==
    /\ initialized => WithinBounds(currentAllocation)
    /\ ( /\ OwnerProposed
         /\ WeightSum(last.weights) = BASIS_POINTS
         /\ ~WithinBounds(last.weights) )
       => ProposalRejected("WeightOutOfBounds")

\* C12: a proposal whose entries do not sum to BASIS_POINTS fails with
\* InvalidWeightSum, before and after initialization, and leaves the stored
\* weights and the initialized flag as they were.
C12_BadSumRejected ==
    (OwnerProposed /\ WeightSum(last.weights) # BASIS_POINTS) =>
        ProposalRejected("InvalidWeightSum")
\* C12 witness: the first proposal is rejected for its sum and the manager
\* stays uninitialized
C12_FirstProposalRejected ==
    /\ OwnerProposed
    /\ WeightSum(last.weights) # BASIS_POINTS
    /\ last.err = "InvalidWeightSum"
    /\ ~initialized
    /\ currentAllocation = NoWeights

\* C13: before initialization the owner's first proposal that sums to
\* BASIS_POINTS is accepted without a delta check: it becomes the stored
\* weights and the manager becomes initialized.
C13_FirstVectorAccepted ==
    ( /\ OwnerProposed
      /\ ~last.pre.initialized
      /\ WeightSum(last.weights) = BASIS_POINTS )
    => /\ last.err = ""
       /\ currentAllocation = last.weights
       /\ initialized
\* C13 witness: [4000,3000,2000,1000] accepted as the first vector, 4000
\* away from the unset aave weight
C13_FarFirstVector ==
    /\ OwnerProposed
    /\ ~last.pre.initialized
    /\ last.err = ""
    /\ last.weights = Weights(4000, 3000, 2000, 1000)
    /\ currentAllocation = last.weights
    /\ MaxDelta(last.weights, last.pre.currentAllocation) > MAX_REBALANCE_DELTA

\* C14: validateAllocation accepts a vector exactly when its entries sum to
\* BASIS_POINTS and each lies between MIN_WEIGHT and MAX_WEIGHT inclusive,
\* returns for every input and changes no state.
C14_ValidatorAcceptsExactly ==
    last.op = "validateAllocation" =>
        /\ last.err = ""
        /\ last.ret \in {0, 1}
        /\ last.ret = 1 <=>
               (WeightSum(last.weights) = BASIS_POINTS /\ WithinBounds(last.weights))
        /\ NothingChanged
\* C14 witness: a vector with an entry on each bound is accepted
C14_AcceptedOnTheBounds ==
    /\ last.op = "validateAllocation"
    /\ last.ret = 1
    /\ \E i \in 1..4 : Entries(last.weights)[i] = MAX_WEIGHT
    /\ \E i \in 1..4 : Entries(last.weights)[i] = MIN_WEIGHT

\* C11: once a weight vector has been accepted, the stored weights sum to
\* exactly BASIS_POINTS in every state, whatever proposals, rebalances,
\* deposits and withdrawals follow.
C11_StoredWeightsSumToWhole ==
    initialized => WeightSum(currentAllocation) = BASIS_POINTS
\* C11 witness: a proposal is rejected for its sum after a rebalance has
\* put assets into the venues
C11_RejectedAfterRebalance ==
    /\ initialized
    /\ last.op = "setAllocationWeights"
    /\ last.err = "InvalidWeightSum"
    /\ rebalances > 0
    /\ balanceOf(Venues[1]) > 0

\* C15: setAllocationWeights, rebalance and setDonationAddress called by
\* anyone but the owner fail with NotAuthorized and change no weights, no
\* initialized flag, no asset balance, no adapter state and no
\* donationAddress.
C15_OnlyOwner ==
    [][ \A c \in Callers \ {Owner} :
          ( \/ \E w \in PoolProposals : setAllocationWeights(c, w)
            \/ rebalance(c)
            \/ \E a \in Accounts : setDonationAddress(c, a) )
          => /\ last'.err = "NotAuthorized"
             /\ UNCHANGED <<ledgerVars, controllerVars, venueVars>> ]_vars
\* C15 witness: a rebalance that the owner could have made (weights set,
\* assets in the vault, the manager allowed to move them) is refused to
\* another caller
C15_RebalanceRefused ==
    /\ last.op = "rebalance"
    /\ last.err = "NotAuthorized"
    /\ initialized
    /\ allowance = Unlimited
    /\ totalAssets >= PoolDeposit
    /\ NothingChanged

\* the last call was rebalance() by the owner / a rebalance() that succeeded
OwnerRebalanced == last.op = "rebalance" /\ last.err # "NotAuthorized"
RebalanceDone == last.op = "rebalance" /\ last.err = ""
\* floor(totalAssets * weight / BASIS_POINTS) and balanceOf() of a venue when
\* the last call started
PreTarget(v) ==
    (PreTotalAssets * last.pre.currentAllocation[v]) \div BASIS_POINTS
PreCurrent(v) == last.pre.strategies[v].shares[Manager]
\* the sum of a quantity over the four venues
VenueSum(f) == f[Venues[1]] + f[Venues[2]] + f[Venues[3]] + f[Venues[4]]
\* the adapter calls the last rebalance made, of one kind
Moves(kind) == SelectSeq(last.moves, LAMBDA m : m.kind = kind)

\* C17: a successful rebalance() leaves balanceOf() of every adapter equal
\* to floor(totalAssets * weight / BASIS_POINTS), from the totalAssets and
\* the weights read at its start.
C17_VenuesAtTarget ==
    RebalanceDone => \A v \in VenueSet : balanceOf(v) = PreTarget(v)
\* C17 witness: a rebalance that deposited into one venue and withdrew from
\* another, with a target that is rounded down
C17_MixedRebalance ==
    /\ RebalanceDone
    /\ Moves("deposit") # <<>>
    /\ Moves("withdraw") # <<>>
    /\ \E v \in VenueSet :
          /\ PreTarget(v) > 0
          /\ PreTarget(v) * BASIS_POINTS < PreTotalAssets * last.pre.currentAllocation[v]

\* the deposits a rebalance is to make: one per venue below its target, of
\* target - current, in venue order
DepositsDue ==
    LET due(i) == IF PreTarget(Venues[i]) > PreCurrent(Venues[i])
                  THEN <<[venue |-> Venues[i], kind |-> "deposit",
                          asked |-> PreTarget(Venues[i]) - PreCurrent(Venues[i]),
                          moved |-> PreTarget(Venues[i]) - PreCurrent(Venues[i])]>>
                  ELSE <<>>
    IN due(1) \o due(2) \o due(3) \o due(4)

\* C18: when no venue is above its target, rebalance() by the owner
\* succeeds, makes exactly one deposit of target - current into each venue
\* below its target, taken from the vault's balance, and no withdrawal; with
\* totalAssets 1000 and weights [4000,3000,2000,1000] against empty venues
\* these are deposits of 400, 300, 200 and 100.
C18_DepositsOnly ==
    (OwnerRebalanced /\ \A v \in VenueSet : PreCurrent(v) <= PreTarget(v)) =>
        /\ last.err = ""
        /\ last.moves = DepositsDue
        /\ balances[Vault] = PreTotalAssets
               - VenueSum([v \in VenueSet |-> PreTarget(v) - PreCurrent(v)])

RecipientSet ==
    /\ (last.op = "setDonationAddress" /\ last.err = "InvalidRecipient") =>
           NothingChanged
    /\ (last.op = "setDonationAddress" /\ last.err = "") =>
           /\ last.addr # ZeroAddress
           /\ donationAddress = last.addr
    /\ ~(last.op = "setDonationAddress" /\ last.err = "") =>
           donationAddress = last.pre.donationAddress
\* the last call was a donation of a positive amount
PositiveDonation == last.op = "donateYield" /\ last.err = "" /\ last.ret > 0
\* the donation went to the donationAddress in place when it was made
RecipientPaid ==
    balances[last.pre.donationAddress]
        = last.pre.balances[last.pre.donationAddress] + last.ret

\* C16 as stated: setDonationAddress by the owner refuses the zero address
\* and leaves donationAddress; any other address replaces donationAddress,
\* and the next positive donation is paid to it.
C16_NewRecipientPaid ==
    /\ RecipientSet
    /\ PositiveDonation => RecipientPaid
\* C16 amended: the same, the donation adding to the balance of a new
\* donationAddress that is not the vault itself.
C16_NewOtherRecipientPaid ==
    /\ RecipientSet
    /\ (PositiveDonation /\ last.pre.donationAddress # Vault) => RecipientPaid
\* C16 witness: a positive donation paid to an address that replaced the
\* one given at construction
C16_ReplacementPaid ==
    /\ PositiveDonation
    /\ last.pre.donationAddress = Owner
    /\ RecipientPaid

\* C21: in every reachable state _totalUserDeposits is not negative and
\* exceeds totalAssets() by at most one unit.
C21_PrincipalWithinValue ==
    /\ totalUserDeposits >= 0
    /\ totalUserDeposits <= totalAssets + 1

\* the assets the last call took out of totalAssets()
ValueRemoved == PreTotalAssets - totalAssets
\* _totalUserDeposits after the proportional reduction for ValueRemoved,
\* from the state the last call started from
PrincipalAfterRemoval ==
    LET proportionalDeposits == (PrePrincipal * ValueRemoved) \div PreTotalAssets
    IN IF proportionalDeposits <= PrePrincipal
       THEN PrePrincipal - proportionalDeposits
       ELSE PrePrincipal

\* C22: donateYield is the only call that reduces totalAssets() without the
\* principal adjustment: after any other successful call that reduced
\* totalAssets() (withdraw, redeem, rebalance, transferToStrategyManager)
\* _totalUserDeposits is reduced in proportion to the assets removed.
C22_OnlyDonationSkipsPrincipal ==
    (last.err = "" /\ last.op # "donateYield" /\ ValueRemoved > 0) =>
        totalUserDeposits = PrincipalAfterRemoval

\* what the last rebalance had to pull from the vault: the sum of
\* target - current over the venues below their target
PullNeeded == VenueSum([v \in VenueSet |-> Max(0, PreTarget(v) - PreCurrent(v))])
\* what the asset token let the manager pull when the last call started:
\* the allowance, but no more than the vault's balance
PullAvailable ==
    IF last.pre.allowance < PreTotalAssets THEN last.pre.allowance
    ELSE PreTotalAssets

\* C23: when the vault's balance or allowance cannot supply the deposits a
\* rebalance() is to make, the call fails with TransferFailed, and after any
\* failed rebalance() every asset balance (vault, manager, adapters) and all
\* adapter state are as before the call, also for venues adjusted before
\* the failing one.
C23_FailedRebalanceChangesNothing ==
    /\ (OwnerRebalanced /\ PullNeeded > PullAvailable) =>
           /\ last.err = "TransferFailed"
           /\ NothingChanged
    /\ (last.op = "rebalance" /\ last.err # "") => NothingChanged
\* C23 witness: the deposit into the first venue could be pulled from the
\* vault, a later one could not, and the first venue holds nothing
C23_FailedAfterFirstVenue ==
    /\ OwnerRebalanced
    /\ last.err = "TransferFailed"
    /\ PreTarget(Venues[1]) - PreCurrent(Venues[1]) > 0
    /\ PreTarget(Venues[1]) - PreCurrent(Venues[1]) <= PullAvailable
    /\ PullNeeded > PullAvailable
    /\ balances[Venues[1]] = 0
    /\ balances[Vault] = PreTotalAssets

\* C24: isHealthy reports healthy for every state of the manager: no
\* rebalance() fails with HealthCheckFailed, and a rebalance() by the owner
\* whose pulls from the vault can all be supplied succeeds.
C24_NeverUnhealthy ==
    /\ isHealthy(Manager)
    /\ last.err # "HealthCheckFailed"
    /\ (OwnerRebalanced /\ PullNeeded <= PullAvailable) => last.err = ""
\* C24 witness: a rebalance that deposited into all four venues completed
C24_CompletedAfterFourDeposits ==
    /\ RebalanceDone
    /\ Len(last.moves) = 4
    /\ Moves("withdraw") = <<>>
    /\ isHealthy(Manager)

\* the adapter calls a rebalance is to make, from the targets and balances
\* read when it starts: for each venue away from its target, in the order
\* aave, morpho, spark, uniswap, a deposit of target - current or a
\* withdrawal of current - target
AdjustmentsDue ==
    LET due(i) ==
            LET t == PreTarget(Venues[i])
                c == PreCurrent(Venues[i])
            IN IF t > c
               THEN <<[venue |-> Venues[i], kind |-> "deposit", asked |-> t - c]>>
               ELSE IF t < c
               THEN <<[venue |-> Venues[i], kind |-> "withdraw", asked |-> c - t]>>
               ELSE <<>>
    IN due(1) \o due(2) \o due(3) \o due(4)
\* the adapter calls the last rebalance made: venue, kind and amount asked
AdjustmentsMade ==
    [i \in 1..Len(last.moves) |->
        [venue |-> last.moves[i].venue, kind |-> last.moves[i].kind,
         asked |-> last.moves[i].asked]]

\* C25: a successful rebalance() adjusts the venues in the order aave,
\* morpho, spark, uniswap whatever the weights, the balances and the kind of
\* each adjustment, skips a venue at its target, and takes every target and
\* balance from the state it started in.
C25_FixedVenueOrder ==
    RebalanceDone => AdjustmentsMade = AdjustmentsDue
\* C25 witness: a rebalance that skipped a venue at its target and made a
\* deposit before a withdrawal
C25_DepositBeforeWithdrawal ==
    /\ RebalanceDone
    /\ \E v \in VenueSet : PreTarget(v) = PreCurrent(v) /\ PreCurrent(v) > 0
    /\ \E i, j \in 1..Len(last.moves) :
          /\ i < j
          /\ last.moves[i].kind = "deposit"
          /\ last.moves[j].kind = "withdraw"

\* the last call was a setAllocationWeights that was accepted
ProposalAccepted == last.op = "setAllocationWeights" /\ last.err = ""

\* C26: initialized becomes true in the first accepted setAllocationWeights
\* and in no other call, and never becomes false again; currentAllocation
\* changes only in an accepted setAllocationWeights, which stores the
\* proposal: rebalance, rejected proposals and the vault's calls leave both.
C26_WeightsChangeOnlyWhenAccepted ==
    /\ last.pre.initialized => initialized
    /\ ProposalAccepted => (initialized /\ currentAllocation = last.weights)
    /\ ~ProposalAccepted =>
           /\ initialized = last.pre.initialized
           /\ currentAllocation = last.pre.currentAllocation
    /\ ~initialized => currentAllocation = NoWeights
\* C26 witness: a proposal rejected after a rebalance, a deposit and an
\* earlier accepted vector: the flag stays true and the weights stay
C26_RejectedKeepsWeights ==
    /\ last.op = "setAllocationWeights"
    /\ last.err = "InvalidWeightSum"
    /\ last.pre.initialized
    /\ initialized
    /\ currentAllocation = last.pre.currentAllocation
    /\ rebalances > 0
    /\ totalAssets > 0

\* the last call was a withdraw or redeem rejected for exceeding what the
\* owner of the shares can take out
WithdrawalRejected ==
    /\ last.op \in {"withdraw", "redeem"}
    /\ last.err = "InsufficientBalance"
\* maxWithdraw(User) in the state the last call started from
PreMaxWithdraw ==
    (PreSupply * (PreTotalAssets + 1)) \div (PreSupply + 1)

\* C27: a withdraw or redeem rejected with InsufficientBalance leaves
\* _totalUserDeposits, totalAssets() and every share balance as they were,
\* and a withdraw or redeem that was carried out asked for no more than the
\* caller could take.
C27_RejectedWithdrawalChangesNothing ==
    /\ WithdrawalRejected => NothingChanged
    /\ (Withdrawn /\ last.op = "withdraw") => last.amt <= PreMaxWithdraw
    /\ (Withdrawn /\ last.op = "redeem") => last.amt <= PreSupply
\* C27 witness: a rejection in a state where an amount above maxWithdraw
\* has a positive proportional reduction of the principal
C27_RejectedWithReductionDue ==
    /\ WithdrawalRejected
    /\ last.op = "withdraw"
    /\ shareBalances[User] > 0
    /\ \E a \in Amounts :
          /\ a > maxWithdraw(User)
          /\ ReducedDeposits(a) < totalUserDeposits

\* the last call left the vault's storage and every asset and share
\* balance as they were
LedgerUnchanged ==
    /\ balances = last.pre.balances
    /\ shareBalances = last.pre.shareBalances
    /\ totalUserDeposits = last.pre.totalUserDeposits
    /\ lastDonationTimestamp = last.pre.lastDonationTimestamp
    /\ donationAddress = last.pre.donationAddress
\* the last call left the manager's storage as it was
ControllerUnchanged ==
    /\ currentAllocation = last.pre.currentAllocation
    /\ initialized = last.pre.initialized

\* C28: setAllocationWeights changes none of totalAssets(),
\* _totalUserDeposits, lastDonationTimestamp and donationAddress; deposit,
\* withdraw, donateYield and setDonationAddress change neither
\* currentAllocation nor initialized.
C28_LedgerAndControllerApart ==
    /\ last.op = "setAllocationWeights" => LedgerUnchanged
    /\ last.op \in {"deposit", "mint", "withdraw", "redeem", "donateYield",
                    "setDonationAddress"} => ControllerUnchanged
\* C28 witness: a vector accepted while the vault holds deposits and yield,
\* after a donation and a change of recipient
C28_AcceptedBesideBusyVault ==
    /\ ProposalAccepted
    /\ totalUserDeposits > 0
    /\ totalAssets > totalUserDeposits
    /\ lastDonationTimestamp > 0
    /\ donationAddress # Donation1

\* what `shares` shares of a venue redeem for, now and when the last call
\* started
RedeemsFor(v, shares) ==
    RedeemAmount(shares, strategies[v].totalAssets, strategies[v].totalShares)
PreRedeemsFor(v, shares) ==
    RedeemAmount(shares, last.pre.strategies[v].totalAssets,
                 last.pre.strategies[v].totalShares)
\* no call lowered what any number of shares of any venue redeems for
RedeemValueKept ==
    \A v \in VenueSet, n \in 1..MaxVenueAssets :
        RedeemsFor(v, n) >= PreRedeemsFor(v, n)
\* the last call withdrew all the shares the depositor got for the deposits
\* made into a fresh venue, with no yield accrued
WithdrewFreshDeposit ==
    /\ last.op = "adapter.withdraw"
    /\ last.err = ""
    /\ last.amt = last.pre.strategies[last.addr].shares[User]
    /\ last.pre.strategies[last.addr].totalAssets = last.amt
    /\ last.pre.strategies[last.addr].totalShares = last.amt + 1

\* C29: no deposit, withdraw or accrueYield of an adapter lowers what a
\* fixed number of its shares redeems for, floor(shares * _totalAssets /
\* _totalShares); and withdrawing the shares received for a deposit of a > 0
\* into a fresh adapter pays at least a.
C29_SharesKeepTheirValue ==
    /\ RedeemValueKept
    /\ WithdrewFreshDeposit => last.ret >= last.amt

C31_RecipientNeverZero ==
    /\ donationAddress # ZeroAddress
    /\ last.pre.donationAddress # ZeroAddress
    /\ PositiveDonation => last.addr # ZeroAddress
\* C31 witness: the owner offered the zero address while yield was waiting
\* for the recipient, and was refused
C31_ZeroRefusedWithYieldWaiting ==
    /\ last.op = "setDonationAddress"
    /\ last.err = "InvalidRecipient"
    /\ getAccumulatedYield > 0
    /\ donationAddress = last.pre.donationAddress
    /\ donationAddress # ZeroAddress

\* the targets of the four venues add up to no more than the total they are
\* computed from
TargetsFit(total, weights) ==
    VenueSum([v \in VenueSet |-> TargetOf(total, weights, v)]) <= total
\* for every total the vault can hold and every proposal that sums to
\* BASIS_POINTS
TargetsAlwaysFit ==
    \A total \in 0..(PoolFunds + MaxYield), w \in Proposals \cup PoolProposals :
        WeightSum(w) = BASIS_POINTS => TargetsFit(total, w)
\* the last call was rebalance() by the owner with no adapter holding
\* anything for the manager
RebalancedFromEmptyVenues ==
    /\ OwnerRebalanced
    /\ \A v \in VenueSet : PreCurrent(v) = 0

\* C32: the targets rebalance() computes from totalAssets() and stored
\* weights summing to BASIS_POINTS add up to at most totalAssets(), so a
\* rebalance() against empty venues asks the vault's balance for no more
\* than it holds: it fails only for the allowance.
C32_TargetsWithinTotal ==
    /\ TargetsAlwaysFit
    /\ initialized => TargetsFit(totalAssets, currentAllocation)
    /\ RebalancedFromEmptyVenues =>
           /\ PullNeeded <= PreTotalAssets
           /\ last.err # "" =>
                  (last.err = "TransferFailed" /\ last.pre.allowance < PullNeeded)
           /\ last.err = "" => balances[Vault] = PreTotalAssets - PullNeeded
\* C32 witness: a rebalance against empty venues whose targets are rounded
\* down leaves part of the vault's balance idle
C32_RoundedTargetsLeaveIdle ==
    /\ RebalancedFromEmptyVenues
    /\ last.err = ""
    /\ PullNeeded > 0
    /\ PullNeeded < PreTotalAssets
    /\ balances[Vault] = PreTotalAssets - PullNeeded

\* getAccumulatedYield in the state the deposit before the last call
\* started from
PriorYield == Max(0, last.prior.totalAssets - last.prior.totalUserDeposits)
\* the last call was a successful withdraw(D) right after a successful
\* deposit(D)
WithdrewTheDeposit ==
    /\ last.op = "withdraw"
    /\ last.err = ""
    /\ last.prior.deposited > 0
    /\ last.amt = last.prior.deposited

\* C33: deposit(D) followed at once by withdraw(D), from any state, also
\* one with yield waiting, changes getAccumulatedYield by at most one unit.
C33_RoundTripKeepsYield ==
    WithdrewTheDeposit => Abs(getAccumulatedYield - PriorYield) <= 1

\* C34: whenever no vault share is outstanding, _totalUserDeposits is 0,
\* after any deposits, yield, donations, withdrawals and redemptions.
C34_NoSharesNoPrincipal ==
    totalSupply = 0 => totalUserDeposits = 0

\* the last call was rebalance() by the owner before any weight vector was
\* accepted
RebalancedUninitialized == OwnerRebalanced /\ ~last.pre.initialized

\* C35: while no weight vector has been accepted the stored weights are
\* zero and the manager holds nothing in any adapter, and rebalance() makes
\* no adapter deposit and no adapter withdrawal and moves nothing out of
\* the vault's balance.
C35_UninitializedRebalanceIdle ==
    /\ ~initialized =>
           /\ currentAllocation = NoWeights
           /\ \A v \in VenueSet : balanceOf(v) = 0
    /\ RebalancedUninitialized =>
           /\ last.err = ""
           /\ last.moves = <<>>
           /\ balances = last.pre.balances
           /\ strategies = last.pre.strategies
           /\ allowance = last.pre.allowance
\* C35 witness: such a rebalance with a pool deposit in the vault and the
\* manager allowed to move all of it
C35_IdleBesideFundedVault ==
    /\ RebalancedUninitialized
    /\ last.err = ""
    /\ last.moves = <<>>
    /\ allowance = Unlimited
    /\ totalAssets >= PoolDeposit
    /\ balances[Vault] = PreTotalAssets

\* C36: lastDonationTimestamp never decreases and is never after
\* block.timestamp; it changes only in a donateYield that transferred a
\* positive amount, which sets it to the time of the call: deposits,
\* withdrawals, setDonationAddress and donateYield calls that failed or
\* donated nothing leave it.
C36_CooldownClockMonotone ==
    /\ lastDonationTimestamp >= last.pre.lastDonationTimestamp
    /\ lastDonationTimestamp <= timestamp
    /\ PositiveDonation =>
           /\ lastDonationTimestamp = last.pre.timestamp
           /\ lastDonationTimestamp > last.pre.lastDonationTimestamp
    /\ ~PositiveDonation =>
           lastDonationTimestamp = last.pre.lastDonationTimestamp
\* C36 witness: after a donation and another interval, a donateYield finds
\* no yield and leaves the time of the earlier donation
C36_ZeroDonationKeepsClock ==
    /\ last.op = "donateYield"
    /\ last.err = ""
    /\ last.ret = 0
    /\ lastDonationTimestamp > 0
    /\ timestamp >= lastDonationTimestamp + MIN_DONATION_INTERVAL
    /\ lastDonationTimestamp = last.pre.lastDonationTimestamp
====
